---- MODULE Spec2Model ----
(***************************************************************************)
(* Model of solana-keypair-scraper (src/main.rs): bounded-depth directory  *)
(* discovery, keypair scanning, dedup by public key, RPC liveness probing  *)
(* and the per-key fan-out of account queries.                             *)
(*                                                                         *)
(* A directory is a node 1..NDirs.  A PathBuf is the record                *)
(* [dirs |-> <<root, ..., d>>, file |-> n]: the chain of directory         *)
(* entries followed from a root, and n = 0 for the directory itself or the *)
(* position n of a regular file in its listing.  A Pubkey is 1..NKeys      *)
(* under its natural order; a file's content 0 is one that does not parse  *)
(* as a keypair.  A URL is the position of a --rpc argument: the           *)
(* arguments are taken to be distinct URLs.  The filesystem does not       *)
(* change during a run; read_dir lists subdirectories in ascending order   *)
(* of their number and files in the order of fileKey.  report holds the    *)
(* balance lines main logs, the info! ones and the debug! ones alike.      *)
(***************************************************************************)
EXTENDS Naturals, Sequences, FiniteSets

NDirs == 3
MaxDepth == 2
MaxRoots == 2
MaxFiles == 2
NKeys == 2
MaxRpc == 2

Dirs == 1..NDirs

\* The account metadata an endpoint can answer with (lamports, owner).
Accounts == {[lamports |-> 5, owner |-> "P"]}
Absent == [lamports |-> 0, owner |-> "none"]
Pending == [lamports |-> 0, owner |-> "pending"]

VARIABLES
    links,          \* filesystem: <<a, b>> when a lists an entry that is the directory b
    unlistable,     \* filesystem: directories on which read_dir fails
    fileKey,        \* filesystem: per directory, its regular files in listing order
    live,           \* network: the URLs whose get_latest_blockhash succeeds
    cli_paths,      \* cli.paths
    cli_depth,      \* cli.depth
    cli_rpc,        \* cli.rpc
    pc,             \* position in main
    all_paths,
    i_path,         \* position of the loop over cli.paths
    all_keys,
    i_scan,         \* position of the loop over all_paths
    all_keys_dedup,
    rpc_clients,
    i_rpc,          \* position of the loop over cli.rpc
    cur,            \* position of the loop over all_keys_dedup.keys()
    inflight,       \* futures of the current join_all that have not completed
    joined,         \* output vector of the current join_all
    report,         \* the balance lines logged (info and debug)
    probes,         \* network: the liveness probes received
    requests,       \* network: the get_account requests received
    responses       \* network: the answers to the current join_all, in completion order

fsVars == <<links, unlistable, fileKey, live, cli_paths, cli_depth, cli_rpc>>
mainVars == <<pc, all_paths, i_path, all_keys, i_scan, all_keys_dedup,
              rpc_clients, i_rpc, cur, inflight, joined, report>>
netVars == <<probes, requests, responses>>
vars == <<fsVars, mainVars, netVars>>

----------------------------------------------------------------------------
\* Helpers

Last(s) == s[Len(s)]

Min(S) == CHOOSE x \in S : \A y \in S : x <= y

RECURSIVE SortedSeq(_)
SortedSeq(S) == IF S = {} THEN <<>> ELSE <<Min(S)>> \o SortedSeq(S \ {Min(S)})

SeqsUpTo(S, n) == UNION {[1..m -> S] : m \in 0..n}

Range(s) == {s[j] : j \in 1..Len(s)}

Ok(v) == [ok |-> TRUE, val |-> v]
Err == [ok |-> FALSE, val |-> <<>>]

DirPath(ds) == [dirs |-> ds, file |-> 0]
Join(p, d) == [dirs |-> Append(p.dirs, d), file |-> 0]
FilePath(p, n) == [dirs |-> p.dirs, file |-> n]
Node(p) == Last(p.dirs)

\* read_dir(p) filtered to the entries that are directories
SubDirs(p) == SortedSeq({b \in Dirs : <<Node(p), b>> \in links})

----------------------------------------------------------------------------
\* find_nested_dirs

RECURSIVE find_nested_dirs(_, _), NestedOf(_, _, _)
find_nested_dirs(p, remaining_levels) ==
    IF remaining_levels = 0 THEN Ok(<<p>>)
    ELSE IF Node(p) \in unlistable THEN Err
    ELSE Ok(<<p>> \o NestedOf(p, SubDirs(p), remaining_levels))

\* the loop over path_contents: a failing entry contributes nothing
NestedOf(p, entries, remaining_levels) ==
    IF entries = <<>> THEN <<>>
    ELSE LET r == find_nested_dirs(Join(p, Head(entries)), remaining_levels - 1)
             partial == IF r.ok THEN r.val ELSE <<>>
         IN  partial \o NestedOf(p, Tail(entries), remaining_levels)

----------------------------------------------------------------------------
\* find_solana_keypairs

RECURSIVE KeypairsFrom(_, _)
KeypairsFrom(p, n) ==
    IF n > Len(fileKey[Node(p)]) THEN <<>>
    ELSE (IF fileKey[Node(p)][n] = 0 THEN <<>>
          ELSE << <<FilePath(p, n), fileKey[Node(p)][n]>> >>)
         \o KeypairsFrom(p, n + 1)

find_solana_keypairs(p) ==
    IF Node(p) \in unlistable THEN Err ELSE Ok(KeypairsFrom(p, 1))

----------------------------------------------------------------------------
\* main

\* lines 102-109: the BTreeMap from each key to the first components inserted for it
Dedup(keys) ==
    [k \in {keys[j][2] : j \in 1..Len(keys)} |->
        {keys[j][1] : j \in {n \in 1..Len(keys) : keys[n][2] = k}}]

\* variant: the keys in the order in which they were first found
RECURSIVE KeysAsFound(_)
KeysAsFound(keys) ==
    IF keys = <<>> THEN <<>>
    ELSE LET rest == KeysAsFound(SubSeq(keys, 1, Len(keys) - 1))
             k == keys[Len(keys)][2]
         IN  IF \E j \in 1..Len(rest) : rest[j] = k THEN rest ELSE Append(rest, k)

KeyOrderAsFound(index, keys) == KeysAsFound(keys)

\* BTreeMap::keys(): ascending key order
KeyOrder(index, keys) == SortedSeq(DOMAIN index)

Discover ==
    /\ pc = "discover"
    /\ IF i_path > Len(cli_paths)
       THEN /\ pc' = "scan"
            /\ UNCHANGED <<all_paths, i_path>>
       ELSE LET r == find_nested_dirs(DirPath(<<cli_paths[i_path]>>), cli_depth)
            IN  IF r.ok
                THEN /\ all_paths' = all_paths \o r.val
                     /\ i_path' = i_path + 1
                     /\ pc' = pc
                ELSE /\ pc' = "failed"
                     /\ UNCHANGED <<all_paths, i_path>>
    /\ UNCHANGED <<all_keys, i_scan, all_keys_dedup, rpc_clients, i_rpc, cur,
                   inflight, joined, report>>
    /\ UNCHANGED <<fsVars, netVars>>

Scan ==
    /\ pc = "scan"
    /\ IF i_scan > Len(all_paths)
       THEN /\ pc' = "dedup"
            /\ UNCHANGED <<all_keys, i_scan>>
       ELSE LET r == find_solana_keypairs(all_paths[i_scan])
            IN  IF r.ok
                THEN /\ all_keys' = all_keys \o r.val
                     /\ i_scan' = i_scan + 1
                     /\ pc' = pc
                ELSE /\ pc' = "failed"
                     /\ UNCHANGED <<all_keys, i_scan>>
    /\ UNCHANGED <<all_paths, i_path, all_keys_dedup, rpc_clients, i_rpc, cur,
                   inflight, joined, report>>
    /\ UNCHANGED <<fsVars, netVars>>

DedupStep ==
    /\ pc = "dedup"
    /\ all_keys_dedup' = Dedup(all_keys)
    /\ pc' = "probe"
    /\ UNCHANGED <<all_paths, i_path, all_keys, i_scan, rpc_clients, i_rpc, cur,
                   inflight, joined, report>>
    /\ UNCHANGED <<fsVars, netVars>>

\* variant: a client is kept whatever its probe answers
ProbeAdmitsAll(url) == TRUE

\* lines 125-126: a client is kept when its probe answers
ProbeAdmits(url) == url \in live

Probe ==
    /\ pc = "probe"
    /\ IF i_rpc > Len(cli_rpc)
       THEN /\ pc' = "query"
            /\ UNCHANGED <<rpc_clients, i_rpc, probes>>
       ELSE /\ probes' = Append(probes, cli_rpc[i_rpc])
            /\ rpc_clients' = IF ProbeAdmits(cli_rpc[i_rpc])
                              THEN Append(rpc_clients, cli_rpc[i_rpc])
                              ELSE rpc_clients
            /\ i_rpc' = i_rpc + 1
            /\ pc' = pc
    /\ UNCHANGED <<all_paths, i_path, all_keys, i_scan, all_keys_dedup, cur,
                   inflight, joined, report>>
    /\ UNCHANGED <<fsVars, requests, responses>>

\* variant: only the first client is asked
TargetsFirstOnly(clients) == {n \in 1..Len(clients) : n = 1}

\* line 136: the clients a key's get_account futures are made for
Targets(clients) == 1..Len(clients)

\* lines 135-138: the next key's futures are made and join_all polls them all
Query ==
    /\ pc = "query"
    /\ LET order == KeyOrder(all_keys_dedup, all_keys)
       IN  IF cur > Len(order)
           THEN /\ pc' = "done"
                /\ UNCHANGED <<inflight, joined, requests, responses>>
           ELSE /\ inflight' = Targets(rpc_clients)
                /\ joined' = [n \in 1..Cardinality(Targets(rpc_clients)) |-> Pending]
                /\ requests' = requests \o
                       [n \in 1..Cardinality(Targets(rpc_clients)) |->
                           [key |-> order[cur],
                            url |-> rpc_clients[SortedSeq(Targets(rpc_clients))[n]]]]
                /\ responses' = <<>>
                /\ pc' = "join"
    /\ UNCHANGED <<all_paths, i_path, all_keys, i_scan, all_keys_dedup, rpc_clients,
                   i_rpc, cur, report>>
    /\ UNCHANGED <<fsVars, probes>>

\* variant: outputs are kept in the order of completion
JoinSlotByCompletion(i, ndone) == ndone + 1

\* join_all: the output of the i-th future goes to the i-th place
JoinSlot(i, ndone) == i

\* one get_account future completes, with an account or with an error
Complete(i, outcome) ==
    /\ pc = "join"
    /\ i \in inflight
    /\ inflight' = inflight \ {i}
    /\ joined' = [joined EXCEPT ![JoinSlot(i, Len(joined) - Cardinality(inflight))] = outcome]
    /\ responses' = Append(responses,
           [key |-> KeyOrder(all_keys_dedup, all_keys)[cur], url |-> rpc_clients[i],
            outcome |-> outcome])
    /\ UNCHANGED <<pc, all_paths, i_path, all_keys, i_scan, all_keys_dedup, rpc_clients,
                   i_rpc, cur, report>>
    /\ UNCHANGED <<fsVars, probes, requests>>

\* variant: an Err result is returned from main
AfterReportFailFast(results) ==
    IF \E n \in 1..Len(results) : results[n] = Absent THEN "failed" ELSE "query"

\* lines 140-160: what follows the logging of one key's results
AfterReport(results) == "query"

\* lines 140-160: join_all is ready; the clients are zipped with its output
Report ==
    /\ pc = "join"
    /\ inflight = {}
    /\ report' = report \o
           [n \in 1..Min({Len(rpc_clients), Len(joined)}) |->
               [key |-> KeyOrder(all_keys_dedup, all_keys)[cur], url |-> rpc_clients[n],
                outcome |-> joined[n]]]
    /\ cur' = cur + 1
    /\ pc' = AfterReport(joined)
    /\ UNCHANGED <<all_paths, i_path, all_keys, i_scan, all_keys_dedup, rpc_clients,
                   i_rpc, inflight, joined>>
    /\ UNCHANGED <<fsVars, netVars>>

Next ==
    \/ Discover
    \/ Scan
    \/ DedupStep
    \/ Probe
    \/ Query
    \/ \E i \in 1..MaxRpc, outcome \in Accounts \cup {Absent} : Complete(i, outcome)
    \/ Report

InitMain ==
    /\ pc = "discover"
    /\ all_paths = <<>>
    /\ i_path = 1
    /\ all_keys = <<>>
    /\ i_scan = 1
    /\ all_keys_dedup = <<>>
    /\ rpc_clients = <<>>
    /\ i_rpc = 1
    /\ cur = 1
    /\ inflight = {}
    /\ joined = <<>>
    /\ report = <<>>
    /\ probes = <<>>
    /\ requests = <<>>
    /\ responses = <<>>

RECURSIVE FileCount(_, _)
FileCount(f, n) == IF n = 0 THEN 0 ELSE Len(f[n]) + FileCount(f, n - 1)

\* at most MaxFiles regular files in the whole tree
FileLayouts ==
    {f \in [Dirs -> SeqsUpTo(0..NKeys, MaxFiles)] : FileCount(f, NDirs) <= MaxFiles}

InitFS ==
    /\ links \in SUBSET {l \in Dirs \X Dirs : l[1] < l[2]}
    /\ unlistable \in {u \in SUBSET Dirs : Cardinality(u) <= 1}
    /\ fileKey \in FileLayouts
    /\ cli_paths \in SeqsUpTo(Dirs, MaxRoots)
    /\ cli_depth \in 0..MaxDepth
    /\ cli_rpc \in {<<>>, <<1>>}
    /\ live \in SUBSET Range(cli_rpc)
    /\ InitMain

SpecFS == InitFS /\ [][Next]_vars

\* one root directory holding all the files, listable or not, and every list of
\* distinct endpoints
Init ==
    /\ links = {}
    /\ unlistable \in {{}, {1}}
    /\ fileKey \in {[d \in Dirs |-> IF d = 1 THEN l ELSE <<>>] :
                        l \in SeqsUpTo(0..NKeys, MaxFiles)}
    /\ cli_paths = <<1>>
    /\ cli_depth = 0
    /\ cli_rpc \in {[n \in 1..m |-> n] : m \in 0..MaxRpc}
    /\ live \in SUBSET Range(cli_rpc)
    /\ InitMain

Spec == Init /\ [][Next]_vars

----------------------------------------------------------------------------
\* Properties

Count(s, x) == Cardinality({j \in 1..Len(s) : s[j] = x})

NonDecreasing(s) == \A a \in 1..Len(s), b \in 1..Len(s) : a < b => s[a].key <= s[b].key

\* the directories within d subdirectory links of root, leaving out every directory
\* that fails to list and what lies below it
RECURSIVE ReachWithin(_, _)
ReachWithin(root, d) ==
    IF d = 0 THEN {root}
    ELSE LET R == ReachWithin(root, d - 1)
         IN  R \cup {b \in Dirs \ unlistable : \E a \in R : <<a, b>> \in links}

\* the directory that holds the file p
Parent(p) == [dirs |-> p.dirs, file |-> 0]

\* the records of all_keys that carry the key k
RecordsOf(k) == {j \in 1..Len(all_keys) : all_keys[j][2] = k}

\* the distinct directories in which a file with the key k was found
DirsHolding(k) == {Parent(all_keys[j][1]) : j \in RecordsOf(k)}

Scanned == pc \in {"dedup", "probe", "query", "join", "done"}
Indexed == pc \in {"probe", "query", "join", "done"}
Probed == pc \in {"query", "join", "done"}

\* the clients whose probe succeeded, in the order of the --rpc arguments
LivePool == SelectSeq(cli_rpc, LAMBDA u : u \in live)

\* the keys whose futures have been made so far
Launched == IF pc = "join" THEN cur ELSE cur - 1

\* C1: the run fails only if listing one of the user-supplied roots fails.
C1_FailsOnlyOnRoot ==
    pc = "failed" => \E j \in 1..Len(cli_paths) : cli_paths[j] \in unlistable

\* C2: when find_nested_dirs(root, d) succeeds, the directories it returns are exactly
\* those within d levels of root, without any directory that fails to list (at any
\* depth from 1 to d) and without what lies below such a directory.
C2_DiscoverReachable ==
    [][(pc = "discover" /\ i_path <= Len(cli_paths) /\ pc' # "failed")
        => {Node(all_paths'[j]) : j \in (Len(all_paths) + 1)..Len(all_paths')}
             = ReachWithin(cli_paths[i_path], cli_depth)]_vars

\* C3: the count reported for a key as "in N directories" is the number of distinct
\* directories holding the key: files of one directory with the same key count once.
C3_CountsDirectories ==
    Indexed => \A k \in DOMAIN all_keys_dedup :
                   Cardinality(all_keys_dedup[k]) = Cardinality(DirsHolding(k))

\* C4: every key found has exactly one index entry, whose location set is not empty
\* and has as many elements as there are distinct directories holding the key, and
\* the distinct-key count never exceeds the record count.
C4_DedupByIdentity ==
    Indexed =>
        /\ DOMAIN all_keys_dedup = {all_keys[j][2] : j \in 1..Len(all_keys)}
        /\ Cardinality(DOMAIN all_keys_dedup) <= Len(all_keys)
        /\ \A k \in DOMAIN all_keys_dedup :
               /\ all_keys_dedup[k] # {}
               /\ Cardinality(all_keys_dedup[k]) = Cardinality(DirsHolding(k))

\* C5: every candidate URL is probed exactly once, the pool is exactly the URLs whose
\* probe succeeded, and a failed probe does not end the run.
C5_PoolIsLiveSubset ==
    /\ \A u \in Range(cli_rpc) : Count(probes, u) <= 1
    /\ Probed => /\ \A u \in Range(cli_rpc) : Count(probes, u) = 1
                 /\ Range(rpc_clients) = {u \in Range(cli_rpc) : u \in live}
                 /\ \A u \in Range(cli_rpc) : Count(rpc_clients, u) <= 1
    /\ probes # <<>> => pc # "failed"

C5_Witness ==
    /\ pc = "done"
    /\ Len(cli_rpc) = 2
    /\ probes = cli_rpc
    /\ Cardinality(live) = 1
    /\ Len(rpc_clients) = 1

\* C6: the requests of a key are all made before any of them completes, they complete
\* in any order, and the key's outcomes are reported one per endpoint in the order of
\* the pool, each with the answer its own endpoint gave.
C6_ReportInPoolOrder ==
    LET E == Len(rpc_clients)
        order == KeyOrder(all_keys_dedup, all_keys)
    IN  /\ pc = "join" =>
               \A n \in 1..E : Count(requests, [key |-> order[cur], url |-> rpc_clients[n]]) = 1
        /\ Probed =>
               /\ Len(report) = (cur - 1) * E
               /\ \A g \in 1..(cur - 1), n \in 1..E :
                      /\ report[(g - 1) * E + n].key = order[g]
                      /\ report[(g - 1) * E + n].url = rpc_clients[n]
        /\ (pc \in {"query", "done"} /\ cur > 1) =>
               \A n \in 1..E :
                   \E j \in 1..Len(responses) :
                       /\ responses[j].key = order[cur - 1]
                       /\ responses[j].url = rpc_clients[n]
                       /\ report[(cur - 2) * E + n].outcome = responses[j].outcome

C6_Witness ==
    /\ pc = "done"
    /\ Len(rpc_clients) = 2
    /\ Len(report) >= 2
    /\ Len(responses) = 2
    /\ responses[1].url = rpc_clients[2]
    /\ responses[2].url = rpc_clients[1]
    /\ responses[1].outcome # responses[2].outcome

\* C7: keys are queried and reported one at a time in ascending key order: a request
\* for a key is made only after every endpoint's request for each smaller key has
\* completed and been reported, whatever the order in which the keys were found on disk.
C7_KeysAscendingSequential ==
    /\ NonDecreasing(requests)
    /\ NonDecreasing(report)
    /\ \A j \in 1..Len(requests), k \in DOMAIN all_keys_dedup, n \in 1..Len(rpc_clients) :
           k < requests[j].key =>
               \E e \in 1..Len(report) :
                   /\ report[e].key = k
                   /\ report[e].url = rpc_clients[n]
                   /\ report[e].outcome # Pending
    /\ \A j \in 1..Len(responses) : \A e \in 1..Len(report) :
           report[e].key <= responses[j].key
    /\ (pc = "done" /\ rpc_clients # <<>>) =>
           {report[e].key : e \in 1..Len(report)} = {all_keys[j][2] : j \in 1..Len(all_keys)}

C7_Witness ==
    /\ pc = "done"
    /\ Len(all_keys) = 2
    /\ all_keys[1][2] > all_keys[2][2]
    /\ Len(rpc_clients) = 2
    /\ Len(report) = 4
    /\ report[1].key < report[4].key

\* C8: exactly one request and one outcome per (key, live endpoint) pair, K x E in
\* all and never a second one; with no live endpoint nothing is requested or reported.
C8_FullFanOutNoRetry ==
    LET E == Len(rpc_clients)
        K == Cardinality(DOMAIN all_keys_dedup)
    IN  /\ \A j \in 1..Len(requests) : Count(requests, requests[j]) = 1
        /\ \A j \in 1..Len(report) :
               Cardinality({e \in 1..Len(report) :
                   report[e].key = report[j].key /\ report[e].url = report[j].url}) = 1
        /\ Len(requests) = Launched * E
        /\ pc = "done" =>
               /\ Len(requests) = K * E
               /\ Len(report) = K * E
               /\ \A k \in DOMAIN all_keys_dedup, n \in 1..E :
                      /\ Count(requests, [key |-> k, url |-> rpc_clients[n]]) = 1
                      /\ \E e \in 1..Len(report) :
                             report[e].key = k /\ report[e].url = rpc_clients[n]
        /\ (Probed /\ E = 0) => requests = <<>> /\ report = <<>>
        /\ pc = "failed" => requests = <<>> /\ report = <<>>

C8_Witness ==
    /\ pc = "done"
    /\ Cardinality(DOMAIN all_keys_dedup) = 2
    /\ Len(rpc_clients) = 2
    /\ Len(requests) = 4
    /\ Len(report) = 4

\* C9: a request that fails or finds no account yields an absent outcome for its pair
\* only: every answer of the key is reported as given, the pool stays as built and the
\* failing endpoint is asked again for every later key, and the run does not fail.
C9_FailureIsolated ==
    LET order == KeyOrder(all_keys_dedup, all_keys)
    IN  /\ Probed => rpc_clients = LivePool
        /\ (responses # <<>> \/ report # <<>>) => pc # "failed"
        /\ pc \in {"query", "done"} =>
               \A j \in 1..Len(responses) : Count(report, responses[j]) = 1
        /\ \A e \in 1..Len(report), g \in 1..Launched :
               (report[e].outcome = Absent /\ order[g] > report[e].key) =>
                   Count(requests, [key |-> order[g], url |-> report[e].url]) = 1

C9_Witness ==
    /\ pc = "done"
    /\ Len(rpc_clients) = 2
    /\ Len(report) = 4
    /\ report[1].outcome = [lamports |-> 5, owner |-> "P"]
    /\ report[2].outcome = Absent
    /\ report[4].url = report[2].url
    /\ report[4].outcome \in Accounts

\* C10: every keypair file of a scanned directory contributes exactly one record, so
\* the record count is the number of such files, also when roots overlap.
C10_OneRecordPerFile ==
    Scanned =>
        \A j \in 1..Len(all_keys) :
            Cardinality({n \in 1..Len(all_keys) :
                /\ Node(all_keys[n][1]) = Node(all_keys[j][1])
                /\ all_keys[n][1].file = all_keys[j][1].file}) = 1

====
